---- MODULE Spec2Model ----
(***************************************************************************)
(* The workflow execution engine of dev-playbook (executeWorkflow and the  *)
(* step functions it calls), the batch runner that drives it over a range  *)
(* of row ids, and the scheduling / ranger endpoints that drive it from    *)
(* the row status.                                                         *)
(*                                                                         *)
(* JavaScript runs each continuation to completion; an `await` is the only *)
(* place where another task of the event loop can run.  Every action below *)
(* is one such continuation: it starts where a promise settles and ends at *)
(* the next await.                                                         *)
(***************************************************************************)
EXTENDS Integers, Sequences, FiniteSets, TLC

VARIABLES store, run, batch, ranger, call

vars == <<store, run, batch, ranger, call>>

(***************************************************************************)
(* Bounds                                                                  *)
(***************************************************************************)
\* row ids are 1..NRows
NRows == 2
\* number of translation steps nested in the Parallel group of the workflow
NPar == 2
\* number of executeWorkflow invocations that can be in flight at once
MaxRuns == 2

RowIds == 1..NRows
Runs == 1..MaxRuns

(***************************************************************************)
(* Values.  Every value is a tuple of strings whose head is its JavaScript *)
(* type: undefined, a string (its characters follow), an object (its name  *)
(* follows).                                                               *)
(***************************************************************************)
Undef == <<"undefined">>
Str(chars) == <<"string">> \o chars
Obj(name) == <<"object", name>>
IsStr(v) == Head(v) = "string"
IsObj(v) == Head(v) = "object"
Chars(v) == Tail(v)

(***************************************************************************)
(* toSlug of the engine's module: lower-case, trim, drop every character   *)
(* outside [\x00-\x7F\w\s-] (the class starts with the range NUL to DEL,   *)
(* so only characters that are not ASCII are dropped), turn each run of    *)
(* white space into one hyphen, then each run of hyphens into one hyphen.  *)
(* A character is a string; "U+00E9" stands for a character beyond ASCII.  *)
(***************************************************************************)
WordChars == {"a", "b", "A", "B", "1", "_"}
SpaceChars == {" "}
AsciiChars == WordChars \cup SpaceChars \cup {"-", "!"}

toLowerCaseChar(c) == IF c = "A" THEN "a" ELSE IF c = "B" THEN "b" ELSE c

toLowerCase(s) == [i \in 1..Len(s) |-> toLowerCaseChar(s[i])]

RECURSIVE trimStart(_)
trimStart(s) ==
  IF s # <<>> /\ Head(s) \in SpaceChars THEN trimStart(Tail(s)) ELSE s

RECURSIVE trimEnd(_)
trimEnd(s) ==
  IF s # <<>> /\ s[Len(s)] \in SpaceChars
  THEN trimEnd(SubSeq(s, 1, Len(s) - 1))
  ELSE s

trim(s) == trimEnd(trimStart(s))

\* .replace(/[^\x00-\x7F\w\s-]/g, '')
removeSpecial(s) ==
  SelectSeq(s, LAMBDA c : \/ c \in AsciiChars
                          \/ c \in WordChars \/ c \in SpaceChars \/ c = "-")

\* .replace(/X+/g, '-') for the character class X
RECURSIVE replaceRuns(_, _)
replaceRuns(s, X) ==
  IF s = <<>> THEN <<>>
  ELSE IF Head(s) \in X
       THEN IF Len(s) > 1 /\ s[2] \in X
            THEN replaceRuns(Tail(s), X)
            ELSE <<"-">> \o replaceRuns(Tail(s), X)
       ELSE <<Head(s)>> \o replaceRuns(Tail(s), X)

toSlug(str) ==
  replaceRuns(replaceRuns(removeSpecial(trim(toLowerCase(str))), SpaceChars), {"-"})

(***************************************************************************)
(* Errors                                                                  *)
(***************************************************************************)
NoError == <<"none">>
RowNotFound == <<"Error", "No data found for the specified row">>
StepError(output) == <<"Error", "step function", output>>
StoreError(what) == <<"Error", "store", what>>

\* the descriptor written with status failed: message plus source location
errorMessage(error) == <<"message">> \o Tail(error) \o <<"in", "location">>

(***************************************************************************)
(* Workflow steps.  Every step record has the same fields: a Parallel      *)
(* entry has no input and no output, an executable step has no nested      *)
(* steps.                                                                  *)
(***************************************************************************)
Statuses == {"empty", "scheduled", "running", "success", "failed"}

Langs == <<"ja", "es", "fr", "de">>

ExecStep(type, input, output) ==
  [type |-> type, input |-> input, output |-> output, steps |-> <<>>]

translateTo(lang) == ExecStep("llm", <<"en">>, lang)

ParallelStep(steps) ==
  [type |-> "parallel", input |-> <<>>, output |-> "", steps |-> steps]

TimestampStep == ExecStep("timestamp", <<>>, "last_edited_ts")

sample_page_workflow ==
  << ExecStep("slug", <<"keyword">>, "slug"),
     ExecStep("llm", <<"keyword", "context">>, "page_content"),
     ExecStep("llm", <<"keyword", "context", "page_content">>, "form_config"),
     ExecStep("concatenate_fields", <<"form_config", "page_content">>, "en"),
     ParallelStep([i \in 1..NPar |-> translateTo(Langs[i])]) >>

\* the workflow of workflowType 'service_page'
service_page_workflow ==
  << ExecStep("slug", <<"keyword">>, "slug"),
     ExecStep("llm", <<"keyword", "context">>, "page_content") >>

\* a workflow whose Parallel group holds a step that references the output
\* field of a sibling: steps 2 and 3 of sample_page_workflow, grouped
sibling_reference_workflow ==
  << ParallelStep(<< sample_page_workflow[2], sample_page_workflow[3] >>) >>

\* the workflows a caller hands to executeWorkflow
Workflows == { sample_page_workflow \o <<TimestampStep>>, service_page_workflow }

\* steps 2 and 4 of seo_page_workflow: the search, then the llm step that
\* references the search's output field
search_page_workflow ==
  << ExecStep("google_search", <<"keyword">>, "google_search_result"),
     ExecStep("llm", <<"keyword", "google_search_result">>, "page_content") >>

isParallelledExecutionStep(step) == step.type = "parallel"

\* the executable steps of one position of the outer sequence
NestedSteps(step) == IF isParallelledExecutionStep(step) THEN step.steps ELSE <<step>>

OutputsOf(step) == {NestedSteps(step)[j].output : j \in 1..Len(NestedSteps(step))}

RECURSIVE OutputsUpTo(_, _)
OutputsUpTo(wf, n) ==
  IF n = 0 THEN {} ELSE OutputsUpTo(wf, n - 1) \cup OutputsOf(wf[n])

OutputFields ==
  UNION {OutputsUpTo(wf, Len(wf)) : wf \in Workflows \cup {search_page_workflow}}
InputFields == {"keyword", "context"}
Fields == InputFields \cup OutputFields

(***************************************************************************)
(* The row store                                                           *)
(***************************************************************************)
Keywords == {Undef, Str(<<"A", " ", "b", "U+00E9", "!">>)}
StaleValue == Obj("stale")
NotWritten == <<"not written">>

AbsentRow ==
  [exists |-> FALSE, status |-> "empty", error |-> NoError,
   f |-> [x \in Fields |-> Undef]]

NewRow(status, keyword, old) ==
  [exists |-> TRUE, status |-> status, error |-> NoError,
   f |-> [x \in Fields |->
            IF x = "keyword" THEN keyword
            ELSE IF x = "context" THEN Str(<<"a">>)
            ELSE old]]

\* fetch(rowId) -> Row | not-found
getRow(id) == store[id]

\* updateFields(rowId, {field: value}), when the store acknowledges it
updateRow(id, field, value) ==
  IF store[id].exists
  THEN [store EXCEPT ![id].f[field] = value]
  ELSE store

\* setStatus(rowId, status, errorDetail?), when the store acknowledges it
updateRowStatus(id, status, detail) ==
  IF store[id].exists
  THEN [store EXCEPT ![id].status = status,
                     ![id].error = IF detail = NoError THEN @ ELSE detail]
  ELSE store

(***************************************************************************)
(* Step functions as executeStep calls them                                *)
(***************************************************************************)
\* typeof value === 'object' ? JSON.stringify(value, null, 2) : String(value)
Serialize(value) ==
  IF IsObj(value) THEN <<"json">> \o Tail(value)
  ELSE IF IsStr(value) THEN Chars(value)
  ELSE value

RECURSIVE Flatten(_)
Flatten(ss) == IF ss = <<>> THEN <<>> ELSE Head(ss) \o Flatten(Tail(ss))

\* the arguments executeStep resolves from the snapshot, one tuple per input
InputArgs(step, data) ==
  CASE step.type = "llm" ->
         [i \in 1..Len(step.input) |->
            <<step.input[i]>> \o Serialize(data.f[step.input[i]])]
    [] step.type = "concatenate_fields" ->
         [i \in 1..Len(step.input) |-> <<step.input[i]>> \o data.f[step.input[i]]]
    [] step.type \in {"slug", "google_search"} -> <<data.f[step.input[1]]>>
    [] OTHER -> <<>>

\* fields.map(f => typeof f === 'string' ? JSON.parse(f) : f), then keyed by name;
\* no string of the model is JSON text, so parsing one throws
concatenateFields(args) ==
  IF \E i \in 1..Len(args) : args[i][2] = "string"
  THEN [ok |-> FALSE, val |-> Undef]
  ELSE [ok |-> TRUE, val |-> <<"object">> \o Flatten(args)]

\* the step functions that settle without awaiting I/O: the value or a throw
SyncResult(step, args) ==
  CASE step.type = "slug" ->
         IF IsStr(args[1])
         THEN [ok |-> TRUE, val |-> Str(toSlug(Chars(args[1])))]
         ELSE [ok |-> FALSE, val |-> Undef]
    [] step.type = "concatenate_fields" -> concatenateFields(args)
    [] OTHER -> [ok |-> TRUE, val |-> Str(<<"now">>)]

\* what llm and googleSearch can resolve to
AsyncResults(step) ==
  IF step.type = "llm" THEN {Obj("generated")} ELSE {Obj("search_results")}

IsAsync(step) == step.type \in {"llm", "google_search"}

(***************************************************************************)
(* executeWorkflow.  run[r] is one invocation: its position (pc), the row  *)
(* id and workflow it was given, the snapshot `data`, the position idx of  *)
(* the outer for loop, and one task per executeStep call of that position. *)
(* calls, written and statusWrites record what the invocation has done:    *)
(* the arguments each step function was called with, the value each output *)
(* field was written with, and every updateRowStatus call with the store's *)
(* answer.  outcome is the error executeWorkflow threw, result the object  *)
(* it returned.                                                            *)
(***************************************************************************)
NotInvoked == << <<"not invoked">> >>

IdleRun ==
  [pc |-> "idle", rowId |-> 0, workflow |-> <<>>, data |-> AbsentRow, idx |-> 0,
   tasks |-> <<>>, error |-> NoError,
   calls |-> [x \in OutputFields |-> NotInvoked],
   written |-> [x \in OutputFields |-> NotWritten],
   statusWrites |-> <<>>, outcome |-> NoError, result |-> AbsentRow]

\* executeStep up to its first await: resolve the inputs, call the function
Invoke(step, data) ==
  LET args == InputArgs(step, data)
      base == [st |-> "calling", output |-> step.output, args |-> args,
               res |-> Undef, error |-> NoError]
  IN  IF IsAsync(step) THEN base
      ELSE IF SyncResult(step, args).ok
           THEN [base EXCEPT !.st = "writing", !.res = SyncResult(step, args).val]
           ELSE [base EXCEPT !.st = "rejected", !.error = StepError(step.output)]

InFlight(rn) == {j \in 1..Len(rn.tasks) : rn.tasks[j].st \in {"calling", "writing"}}
Rejected(rn) == {j \in 1..Len(rn.tasks) : rn.tasks[j].st = "rejected"}
AllDone(rn) == \A j \in 1..Len(rn.tasks) : rn.tasks[j].st = "done"
Ended(rn) == rn.pc \in {"idle", "returned", "thrown"}
Quiescent(rn) == Ended(rn) /\ InFlight(rn) = {}

\* Merge with line 287 left out: the output is persisted but never merged
MergeSkipped(data, field, value) == data

\* Advance as Promise.race would have it: the first resolved call moves the loop on
AdvanceOnFirstDone(rn) ==
  IF rn.pc = "steps" /\ \E j \in 1..Len(rn.tasks) : rn.tasks[j].st = "done"
  THEN [rn EXCEPT !.idx = @ + 1, !.tasks = <<>>]
  ELSE rn

\* a rejection reaches the catch block once: Promise.all and the try block are
\* settled by the first one, later ones are dropped
Catch(rn, error) ==
  IF rn.pc = "steps"
  THEN [rn EXCEPT !.pc = "setFailed", !.error = error]
  ELSE rn

\* Merge that creates the key without the result
MergeDropsValue(data, field, value) == [data EXCEPT !.f[field] = Undef]

\* data[executableStep.output] = result
Merge(data, field, value) == [data EXCEPT !.f[field] = value]

\* the for loop moves on when every executeStep call of the position resolved
Advance(rn) ==
  IF rn.pc = "steps" /\ AllDone(rn)
  THEN [rn EXCEPT !.idx = @ + 1, !.tasks = <<>>]
  ELSE rn

BeginRun(id, wf) ==
  [IdleRun EXCEPT !.pc = "getRow", !.rowId = id, !.workflow = wf]

\* GetRowReturns with line 252 left out: the steps start with the status untouched
GetRowReturnsSkipsRunning(r) ==
  /\ run[r].pc = "getRow"
  /\ run' = [run EXCEPT ![r] =
       IF getRow(run[r].rowId).exists
       THEN [@ EXCEPT !.pc = "steps", !.idx = 1, !.data = getRow(run[r].rowId)]
       ELSE [@ EXCEPT !.pc = "thrown", !.outcome = RowNotFound]]
  /\ UNCHANGED <<store, batch, ranger, call>>

\* GetRowReturns with line 251 left out: a missing row is not detected
GetRowReturnsUnchecked(r) ==
  /\ run[r].pc = "getRow"
  /\ run' = [run EXCEPT ![r].pc = "setRunning", ![r].data = getRow(run[r].rowId)]
  /\ UNCHANGED <<store, batch, ranger, call>>

\* const rowData = await getRow(...); if (!rowData) throw ...; updateRowStatus('running')
GetRowReturns(r) ==
  /\ run[r].pc = "getRow"
  /\ run' = [run EXCEPT ![r] =
       IF getRow(run[r].rowId).exists
       THEN [@ EXCEPT !.pc = "setRunning", !.data = getRow(run[r].rowId)]
       ELSE [@ EXCEPT !.pc = "thrown", !.outcome = RowNotFound]]
  /\ UNCHANGED <<store, batch, ranger, call>>

SetRunningAck(r) ==
  /\ run[r].pc = "setRunning"
  /\ store' = updateRowStatus(run[r].rowId, "running", NoError)
  /\ UNCHANGED <<batch, ranger, call>>
  /\ run' = [run EXCEPT ![r].pc = "steps", ![r].idx = 1,
                        ![r].statusWrites = Append(@, <<"running", "ack">>)]

\* the call is outside the try block: its rejection leaves executeWorkflow as it is
SetRunningError(r) ==
  /\ run[r].pc = "setRunning"
  /\ run' = [run EXCEPT ![r].pc = "thrown", ![r].outcome = StoreError("status"),
                        ![r].statusWrites = Append(@, <<"running", "error">>)]
  /\ UNCHANGED <<store, batch, ranger, call>>

\* StartStep with step-level resume: a position whose output fields are all
\* set in the snapshot is passed over
StartStepSkipsSet(r) ==
  LET rn == run[r]
      steps == NestedSteps(rn.workflow[rn.idx])
      tasks == [j \in 1..Len(steps) |-> Invoke(steps[j], rn.data)]
      started == [rn EXCEPT
                    !.tasks = tasks,
                    !.calls = [x \in OutputFields |->
                                 IF \E j \in 1..Len(steps) : steps[j].output = x
                                 THEN tasks[CHOOSE j \in 1..Len(steps) :
                                              steps[j].output = x].args
                                 ELSE @[x]]]
      first == CHOOSE j \in Rejected(started) : \A k \in Rejected(started) : j <= k
  IN  /\ rn.pc = "steps"
      /\ rn.idx <= Len(rn.workflow)
      /\ rn.tasks = <<>>
      /\ run' = [run EXCEPT ![r] =
           IF \A j \in 1..Len(steps) : rn.data.f[steps[j].output] # Undef
           THEN [rn EXCEPT !.idx = @ + 1]
           ELSE IF Rejected(started) = {} THEN started
           ELSE Catch(started, started.tasks[first].error)]
      /\ UNCHANGED <<store, batch, ranger, call>>

\* executeStep(step) for the step at idx, or step.steps.map(executeStep)
StartStep(r) ==
  LET rn == run[r]
      steps == NestedSteps(rn.workflow[rn.idx])
      tasks == [j \in 1..Len(steps) |-> Invoke(steps[j], rn.data)]
      started == [rn EXCEPT
                    !.tasks = tasks,
                    !.calls = [x \in OutputFields |->
                                 IF \E j \in 1..Len(steps) : steps[j].output = x
                                 THEN tasks[CHOOSE j \in 1..Len(steps) :
                                              steps[j].output = x].args
                                 ELSE @[x]]]
      first == CHOOSE j \in Rejected(started) : \A k \in Rejected(started) : j <= k
  IN  /\ rn.pc = "steps"
      /\ rn.idx <= Len(rn.workflow)
      /\ rn.tasks = <<>>
      /\ run' = [run EXCEPT ![r] =
           IF Rejected(started) = {} THEN started
           ELSE Catch(started, started.tasks[first].error)]
      /\ UNCHANGED <<store, batch, ranger, call>>

FunctionReturns(r, j) ==
  /\ j \in 1..Len(run[r].tasks)
  /\ run[r].tasks[j].st = "calling"
  /\ NestedSteps(run[r].workflow[run[r].idx])[j].type = "llm"
  /\ \E v \in AsyncResults(NestedSteps(run[r].workflow[run[r].idx])[j]) :
       run' = [run EXCEPT ![r].tasks[j].st = "writing", ![r].tasks[j].res = v]
  /\ UNCHANGED <<store, batch, ranger, call>>

FunctionThrows(r, j) ==
  /\ j \in 1..Len(run[r].tasks)
  /\ run[r].tasks[j].st = "calling"
  /\ NestedSteps(run[r].workflow[run[r].idx])[j].type = "llm"
  /\ run' = [run EXCEPT ![r] =
       Catch([@ EXCEPT !.tasks[j].st = "rejected",
                       !.tasks[j].error = StepError(run[r].tasks[j].output)],
             StepError(run[r].tasks[j].output))]
  /\ UNCHANGED <<store, batch, ranger, call>>

\* UpdateRowAck in an executeStep that reads its inputs after an await: the calls
\* of the group that have not returned yet see the merged output
UpdateRowAckLateInputs(r, j) ==
  LET t == run[r].tasks[j]
      steps == NestedSteps(run[r].workflow[run[r].idx])
      merged == Merge(run[r].data, t.output, t.res)
      late == {k \in 1..Len(run[r].tasks) : k # j /\ run[r].tasks[k].st = "calling"}
  IN
  /\ j \in 1..Len(run[r].tasks)
  /\ t.st = "writing"
  /\ store' = updateRow(run[r].rowId, t.output, t.res)
  /\ UNCHANGED <<batch, ranger, call>>
  /\ run' = [run EXCEPT ![r] =
       Advance([@ EXCEPT
         !.tasks = [k \in 1..Len(run[r].tasks) |->
                      IF k = j THEN [run[r].tasks[k] EXCEPT !.st = "done"]
                      ELSE IF k \in late
                           THEN [run[r].tasks[k] EXCEPT !.args = InputArgs(steps[k], merged)]
                           ELSE run[r].tasks[k]],
         !.data = merged,
         !.written[t.output] = t.res,
         !.calls = [x \in OutputFields |->
                      IF \E k \in late : steps[k].output = x
                      THEN InputArgs(steps[CHOOSE k \in late : steps[k].output = x], merged)
                      ELSE run[r].calls[x]]])]

\* UpdateRowAck with the write batched for later: merged, not persisted
UpdateRowAckNotPersisted(r, j) ==
  /\ j \in 1..Len(run[r].tasks)
  /\ run[r].tasks[j].st = "writing"
  /\ run' = [run EXCEPT ![r] =
       Advance([@ EXCEPT !.tasks[j].st = "done",
                         !.data = Merge(@, run[r].tasks[j].output, run[r].tasks[j].res)])]
  /\ UNCHANGED <<store, batch, ranger, call>>

\* await updateRow(...) resolved; data[output] = result; return
UpdateRowAck(r, j) ==
  LET t == run[r].tasks[j] IN
  /\ j \in 1..Len(run[r].tasks)
  /\ t.st = "writing"
  /\ store' = updateRow(run[r].rowId, t.output, t.res)
  /\ UNCHANGED <<batch, ranger, call>>
  /\ run' = [run EXCEPT ![r] =
       Advance([@ EXCEPT !.tasks[j].st = "done",
                         !.data = Merge(@, t.output, t.res),
                         !.written[t.output] = t.res])]

\* UpdateRowError with lines 286 and 287 swapped: merged before the write is awaited
UpdateRowErrorMergedFirst(r, j) ==
  /\ j \in 1..Len(run[r].tasks)
  /\ run[r].tasks[j].st = "writing"
  /\ run' = [run EXCEPT ![r] =
       Catch([@ EXCEPT !.tasks[j].st = "rejected",
                       !.tasks[j].error = StoreError(run[r].tasks[j].output),
                       !.data = Merge(@, run[r].tasks[j].output, run[r].tasks[j].res)],
             StoreError(run[r].tasks[j].output))]
  /\ UNCHANGED <<store, batch, ranger, call>>

UpdateRowError(r, j) ==
  /\ j \in 1..Len(run[r].tasks)
  /\ run[r].tasks[j].st = "writing"
  /\ run' = [run EXCEPT ![r] =
       Catch([@ EXCEPT !.tasks[j].st = "rejected",
                       !.tasks[j].error = StoreError(run[r].tasks[j].output)],
             StoreError(run[r].tasks[j].output))]
  /\ UNCHANGED <<store, batch, ranger, call>>

\* LoopEnd one position early: the last entry of the workflow is left out
LoopEndEarly(r) ==
  /\ run[r].pc = "steps"
  /\ run[r].idx >= Len(run[r].workflow)
  /\ run[r].tasks = <<>>
  /\ run' = [run EXCEPT ![r].pc = "setSuccess"]
  /\ UNCHANGED <<store, batch, ranger, call>>

\* the for loop is over: await updateRowStatus(table, rowId, 'success')
LoopEnd(r) ==
  /\ run[r].pc = "steps"
  /\ run[r].idx = Len(run[r].workflow) + 1
  /\ run' = [run EXCEPT ![r].pc = "setSuccess"]
  /\ UNCHANGED <<store, batch, ranger, call>>

\* SetSuccessAck returning the row as the store holds it after the write
SetSuccessAckReturnsStored(r) ==
  /\ run[r].pc = "setSuccess"
  /\ store' = updateRowStatus(run[r].rowId, "success", NoError)
  /\ UNCHANGED <<batch, ranger, call>>
  /\ run' = [run EXCEPT ![r].pc = "returned",
                        ![r].result = updateRowStatus(run[r].rowId, "success",
                                                      NoError)[run[r].rowId],
                        ![r].statusWrites = Append(@, <<"success", "ack">>)]

\* return data
SetSuccessAck(r) ==
  /\ run[r].pc = "setSuccess"
  /\ store' = updateRowStatus(run[r].rowId, "success", NoError)
  /\ UNCHANGED <<batch, ranger, call>>
  /\ run' = [run EXCEPT ![r].pc = "returned", ![r].result = run[r].data,
                        ![r].statusWrites = Append(@, <<"success", "ack">>)]

\* SetSuccessError with line 294 outside the try block: no catch, no status failed
SetSuccessErrorUncaught(r) ==
  /\ run[r].pc = "setSuccess"
  /\ run' = [run EXCEPT ![r].pc = "thrown", ![r].outcome = StoreError("status"),
                        ![r].statusWrites = Append(@, <<"success", "error">>)]
  /\ UNCHANGED <<store, batch, ranger, call>>

SetSuccessError(r) ==
  /\ run[r].pc = "setSuccess"
  /\ run' = [run EXCEPT ![r].pc = "setFailed", ![r].error = StoreError("status"),
                        ![r].statusWrites = Append(@, <<"success", "error">>)]
  /\ UNCHANGED <<store, batch, ranger, call>>

\* SetFailedAck with `throw error` left out: the caller sees a normal return
SetFailedAckSwallows(r) ==
  /\ run[r].pc = "setFailed"
  /\ store' = updateRowStatus(run[r].rowId, "failed", errorMessage(run[r].error))
  /\ UNCHANGED <<batch, ranger, call>>
  /\ run' = [run EXCEPT ![r].pc = "returned", ![r].result = run[r].data,
                        ![r].statusWrites = Append(@, <<"failed", "ack">>)]

\* await updateRowStatus(table, rowId, 'failed', errorMessage).catch(...); throw error
SetFailedAck(r) ==
  /\ run[r].pc = "setFailed"
  /\ store' = updateRowStatus(run[r].rowId, "failed", errorMessage(run[r].error))
  /\ UNCHANGED <<batch, ranger, call>>
  /\ run' = [run EXCEPT ![r].pc = "thrown", ![r].outcome = run[r].error,
                        ![r].statusWrites = Append(@, <<"failed", "ack">>)]

SetFailedError(r) ==
  /\ run[r].pc = "setFailed"
  /\ run' = [run EXCEPT ![r].pc = "thrown", ![r].outcome = run[r].error,
                        ![r].statusWrites = Append(@, <<"failed", "error">>)]
  /\ UNCHANGED <<store, batch, ranger, call>>

Engine(r) ==
  \/ GetRowReturns(r)
  \/ SetRunningAck(r)
  \/ SetRunningError(r)
  \/ StartStep(r)
  \/ \E j \in 1..NPar : FunctionReturns(r, j)
  \/ \E j \in 1..NPar : FunctionThrows(r, j)
  \/ \E j \in 1..NPar : UpdateRowAck(r, j)
  \/ \E j \in 1..NPar : UpdateRowError(r, j)
  \/ LoopEnd(r)
  \/ SetSuccessAck(r)
  \/ SetSuccessError(r)
  \/ SetFailedAck(r)
  \/ SetFailedError(r)

(***************************************************************************)
(* The callers of executeWorkflow: the batch runner (one processBatch call) *)
(* and the ranger endpoint (one invocation per slot of run).               *)
(***************************************************************************)
IdleBatch ==
  [pc |-> "idle", startId |-> 0, endId |-> 0, rowId |-> 0, workflow |-> <<>>,
   log |-> <<>>]

IdleRanger == [pc |-> "idle", serviceIds |-> <<>>]

\* no step function is being followed call by call
IdleCall == [fn |-> "none"]

(***************************************************************************)
(* Spec: one caller invokes executeWorkflow directly, on any row id, again *)
(* and again, each time after the previous invocation has ended and its    *)
(* executeStep calls have settled.  Row 1 starts in any state a row can be *)
(* in, the other ids are absent from the store.                            *)
(***************************************************************************)
InitRows ==
  {AbsentRow} \cup
  {NewRow(s, k, o) : s \in Statuses, k \in Keywords, o \in {Undef, StaleValue}}

Init ==
  /\ store \in {[id \in RowIds |-> IF id = 1 THEN row ELSE AbsentRow] : row \in InitRows}
  /\ run = [r \in Runs |-> IdleRun]
  /\ batch = IdleBatch
  /\ ranger = [k \in Runs |-> IdleRanger]
  /\ call = IdleCall

Call(id, wf) ==
  /\ Quiescent(run[1])
  /\ run' = [run EXCEPT ![1] = BeginRun(id, wf)]
  /\ UNCHANGED <<store, batch, ranger, call>>

Next ==
  \/ \E id \in RowIds, wf \in Workflows : Call(id, wf)
  \/ Engine(1)

Spec == Init /\ [][Next]_vars

(***************************************************************************)
(* SpecSiblings: the same caller, handing executeWorkflow the workflow     *)
(* whose Parallel group holds a reference to a sibling's output.           *)
(***************************************************************************)
NextSiblings ==
  \/ \E id \in RowIds : Call(id, sibling_reference_workflow)
  \/ Engine(1)

SpecSiblings == Init /\ [][NextSiblings]_vars

(***************************************************************************)
(* SpecBatch: processBatch(startId, endId, workflow) over rows that are    *)
(* absent or freshly inserted.  The executeWorkflow call of the k-th row   *)
(* of the range is run[k]: a call that has thrown can still have           *)
(* executeStep calls in flight while the next row is processed.            *)
(***************************************************************************)
BatchSlot(b) == b.rowId - b.startId + 1

BatchRows == {AbsentRow} \cup {NewRow("empty", k, Undef) : k \in Keywords}

InitBatch ==
  /\ store \in [RowIds -> BatchRows]
  /\ run = [r \in Runs |-> IdleRun]
  /\ batch = IdleBatch
  /\ ranger = [k \in Runs |-> IdleRanger]
  /\ call = IdleCall

\* processBatch(startId, endId, workflow): for (let rowId = startId; ...
processBatch(startId, endId, wf) ==
  /\ batch.pc = "idle"
  /\ startId <= endId
  /\ endId - startId < MaxRuns
  /\ batch' = [batch EXCEPT !.pc = "loop", !.startId = startId, !.endId = endId,
                            !.rowId = startId, !.workflow = wf]
  /\ UNCHANGED <<store, run, ranger, call>>

\* BatchCallsEngine without the await: the loop goes on to the next row id
BatchCallsEngineNotAwaited ==
  /\ batch.pc = "loop"
  /\ batch.rowId <= batch.endId
  /\ run' = [run EXCEPT ![BatchSlot(batch)] = BeginRun(batch.rowId, batch.workflow)]
  /\ batch' = [batch EXCEPT !.rowId = @ + 1]
  /\ UNCHANGED <<store, ranger, call>>

\* rowId <= endId: await executeWorkflow(workflow.tableName, rowId, workflow)
BatchCallsEngine ==
  /\ batch.pc = "loop"
  /\ batch.rowId <= batch.endId
  /\ run' = [run EXCEPT ![BatchSlot(batch)] = BeginRun(batch.rowId, batch.workflow)]
  /\ batch' = [batch EXCEPT !.pc = "await"]
  /\ UNCHANGED <<store, ranger, call>>

\* BatchRowFailed without the catch block: the rejection leaves processBatch
BatchRowFailedRethrows ==
  /\ batch.pc = "await"
  /\ run[BatchSlot(batch)].pc = "thrown"
  /\ batch' = [batch EXCEPT !.pc = "thrown",
                            !.log = Append(@, <<batch.rowId, "failed">>)]
  /\ UNCHANGED <<store, run, ranger, call>>

\* executeWorkflow resolved: log it; if (rowId < endId) await the delay
BatchRowCompleted ==
  /\ batch.pc = "await"
  /\ run[BatchSlot(batch)].pc = "returned"
  /\ batch' = [batch EXCEPT
       !.pc = IF batch.rowId < batch.endId THEN "delay" ELSE "loop",
       !.rowId = IF batch.rowId < batch.endId THEN @ ELSE @ + 1,
       !.log = Append(@, <<batch.rowId, "completed">>)]
  /\ UNCHANGED <<store, run, ranger, call>>

\* the delay has elapsed: rowId++
BatchDelayElapsed ==
  /\ batch.pc = "delay"
  /\ batch' = [batch EXCEPT !.pc = "loop", !.rowId = @ + 1,
                            !.log = Append(@, <<batch.rowId, "delay">>)]
  /\ UNCHANGED <<store, run, ranger, call>>

\* executeWorkflow rejected: catch (error) { console.error(...); continue; }
BatchRowFailed ==
  /\ batch.pc = "await"
  /\ run[BatchSlot(batch)].pc = "thrown"
  /\ batch' = [batch EXCEPT !.pc = "loop", !.rowId = @ + 1,
                            !.log = Append(@, <<batch.rowId, "failed">>)]
  /\ UNCHANGED <<store, run, ranger, call>>

\* rowId > endId: the loop is over and processBatch resolves
BatchReturns ==
  /\ batch.pc = "loop"
  /\ batch.rowId > batch.endId
  /\ batch' = [batch EXCEPT !.pc = "done"]
  /\ UNCHANGED <<store, run, ranger, call>>

NextBatch ==
  \/ \E startId \in RowIds, endId \in RowIds, wf \in {service_page_workflow} :
       processBatch(startId, endId, wf)
  \/ BatchCallsEngine
  \/ BatchRowCompleted
  \/ BatchDelayElapsed
  \/ BatchRowFailed
  \/ BatchReturns
  \/ \E r \in Runs : Engine(r)

SpecBatch == InitBatch /\ [][NextBatch]_vars

(***************************************************************************)
(* SpecPipeline: the scheduling endpoint and the ranger endpoint.  The     *)
(* cron job requests the ranger every minute and a request may last five,  *)
(* so requests overlap; ranger[k] is the k-th request to arrive and run[k]  *)
(* the executeWorkflow call it starts through runWorkflow.                 *)
(***************************************************************************)
PipelineRows == {NewRow("empty", k, Undef) : k \in Keywords \ {Undef}}

InitPipeline ==
  /\ store \in [RowIds -> PipelineRows]
  /\ run = [r \in Runs |-> IdleRun]
  /\ batch = IdleBatch
  /\ ranger = [k \in Runs |-> IdleRanger]
  /\ call = IdleCall

Min(S) == CHOOSE x \in S : \A y \in S : x <= y

\* db.update(table).set({status}).where(id in ids): the rows after the update
SetStatusOf(ids, status) ==
  [id \in RowIds |-> IF id \in ids THEN [store[id] EXCEPT !.status = status]
                                    ELSE store[id]]

\* Schedule without notInArray(status, ['scheduled', 'running'])
ScheduleUnguarded(taskIds, status) ==
  LET empties == {id \in RowIds : store[id].exists /\ store[id].status = "empty"}
      named == {id \in taskIds : store[id].exists}
  IN  /\ store' = IF status = "empty" THEN SetStatusOf(empties, "scheduled")
                  ELSE IF taskIds # {} THEN SetStatusOf(named, "scheduled")
                  ELSE SetStatusOf(empties, "scheduled")
      /\ UNCHANGED <<run, batch, ranger, call>>

\* Schedule with the test of taskIds before the test of status
ScheduleTaskIdsFirst(taskIds, status) ==
  LET empties == {id \in RowIds : store[id].exists /\ store[id].status = "empty"}
      named == {id \in taskIds : /\ store[id].exists
                                  /\ store[id].status \notin {"scheduled", "running"}}
  IN  /\ store' = IF taskIds # {} THEN SetStatusOf(named, "scheduled")
                  ELSE SetStatusOf(empties, "scheduled")
      /\ UNCHANGED <<run, batch, ranger, call>>

\* POST /api/seo/batch/tasks/schedule with body {table, taskIds, status}
Schedule(taskIds, status) ==
  LET empties == {id \in RowIds : store[id].exists /\ store[id].status = "empty"}
      named == {id \in taskIds : /\ store[id].exists
                                  /\ store[id].status \notin {"scheduled", "running"}}
  IN  /\ store' = IF status = "empty" THEN SetStatusOf(empties, "scheduled")
                  ELSE IF taskIds # {} THEN SetStatusOf(named, "scheduled")
                  ELSE SetStatusOf(empties, "scheduled")
      /\ UNCHANGED <<run, batch, ranger, call>>

\* runWorkflow({workflowType: 'service_page', idInput}): the engine run it starts
runWorkflow(id) == BeginRun(id, service_page_workflow)

\* GET /api/seo/batch/ranger: select the first scheduled row by id
RangerSelects(k) ==
  LET scheduled == {id \in RowIds : store[id].exists /\ store[id].status = "scheduled"}
  IN  /\ ranger[k].pc = "idle"
      /\ \A j \in 1..(k - 1) : ranger[j].pc # "idle"
      /\ ranger' = [ranger EXCEPT ![k] =
           IF scheduled = {}
           THEN [pc |-> "done", serviceIds |-> <<>>]
           ELSE [pc |-> "selected", serviceIds |-> <<Min(scheduled)>>]]
      /\ UNCHANGED <<store, run, batch, call>>

\* the update to running resolved: runWorkflow(...).catch(...) is started
RangerUpdates(k) ==
  LET id == ranger[k].serviceIds[1] IN
  /\ ranger[k].pc = "selected"
  /\ store' = SetStatusOf({id}, "running")
  /\ run' = [run EXCEPT ![k] = runWorkflow(id)]
  /\ ranger' = [ranger EXCEPT ![k].pc = "awaiting"]
  /\ UNCHANGED <<batch, call>>

\* the update rejected: catch (error) responds with 500
RangerUpdateFails(k) ==
  /\ ranger[k].pc = "selected"
  /\ ranger' = [ranger EXCEPT ![k].pc = "done"]
  /\ UNCHANGED <<store, run, batch, call>>

\* await Promise.all(workflowPromises) resolved: respond
RangerResponds(k) ==
  /\ ranger[k].pc = "awaiting"
  /\ run[k].pc \in {"returned", "thrown"}
  /\ ranger' = [ranger EXCEPT ![k].pc = "done"]
  /\ UNCHANGED <<store, run, batch, call>>

NextPipeline ==
  \/ \E taskIds \in SUBSET RowIds, status \in {"empty", "none"} :
       Schedule(taskIds, status)
  \/ \E k \in Runs : RangerSelects(k)
  \/ \E k \in Runs : RangerUpdates(k)
  \/ \E k \in Runs : RangerUpdateFails(k)
  \/ \E k \in Runs : RangerResponds(k)
  \/ \E r \in Runs : Engine(r)

SpecPipeline == InitPipeline /\ [][NextPipeline]_vars

(***************************************************************************)
(* Properties of executeWorkflow                                           *)
(***************************************************************************)
Last(seq) == seq[Len(seq)]

AllOutputs(rn) == OutputsUpTo(rn.workflow, Len(rn.workflow))
\* the outputs of the positions before / after the position the loop is at
EarlierOutputs(rn) == OutputsUpTo(rn.workflow, rn.idx - 1)
LaterOutputs(rn) == AllOutputs(rn) \ OutputsUpTo(rn.workflow, rn.idx)

\* the outputs of the executable steps in list order, nested steps in their place
FlatOutputs(wf) ==
  Flatten([p \in 1..Len(wf) |->
             [j \in 1..Len(NestedSteps(wf[p])) |-> NestedSteps(wf[p])[j].output]])

IsStepError(e) == \E x \in OutputFields : e = StepError(x)
\* the run was aborted by a step: its function threw or its output write was rejected
FailedAtStep(e) == \E x \in OutputFields : e \in {StepError(x), StoreError(x)}
FailedField(e) == e[3]

Persisted(rn, x) ==
  /\ rn.written[x] # NotWritten
  /\ store[rn.rowId].f[x] = rn.written[x]

\* C1 as stated: when a step's function fails, no later step is invoked, status
\* failed is persisted with an error descriptor, and the failure is propagated.
C1_FailureAborts ==
  \A r \in Runs :
    IsStepError(run[r].error) =>
      /\ run[r].pc \in {"setFailed", "thrown"}
      /\ \A x \in LaterOutputs(run[r]) : run[r].calls[x] = NotInvoked
      /\ Ended(run[r]) =>
           /\ run[r].pc = "thrown"
           /\ run[r].outcome = run[r].error
           /\ \E j \in Rejected(run[r]) : run[r].tasks[j].error = run[r].outcome
           /\ store[run[r].rowId].status = "failed"
           /\ store[run[r].rowId].error = errorMessage(run[r].error)

\* C1 amended: when a step's function fails and is the first failure of the run,
\* no later step of the workflow is invoked, that failure is thrown to the caller,
\* and status failed is written with the error descriptor; the row holds them,
\* unless the store rejects that status write: then the row stays running.
C1_FailureAbortsUnlessStatusRejected ==
  \A r \in Runs :
    IsStepError(run[r].error) =>
      /\ run[r].pc \in {"setFailed", "thrown"}
      /\ \A x \in LaterOutputs(run[r]) : run[r].calls[x] = NotInvoked
      /\ Ended(run[r]) =>
           /\ run[r].pc = "thrown"
           /\ run[r].outcome = run[r].error
           /\ \E j \in Rejected(run[r]) : run[r].tasks[j].error = run[r].outcome
           /\ IF Last(run[r].statusWrites) = <<"failed", "ack">>
              THEN /\ store[run[r].rowId].status = "failed"
                   /\ store[run[r].rowId].error = errorMessage(run[r].error)
              ELSE /\ Last(run[r].statusWrites) = <<"failed", "error">>
                   /\ store[run[r].rowId].status = "running"

C1_Witness ==
  \E r \in Runs :
    /\ run[r].pc = "thrown"
    /\ run[r].outcome = StepError("form_config")
    /\ store[run[r].rowId].status = "failed"
    /\ run[r].calls["en"] = NotInvoked

C3_SequentialOrder ==
  \A r \in Runs :
    \A p \in 1..Len(run[r].workflow) :
      (\E x \in OutputsOf(run[r].workflow[p]) : run[r].calls[x] # NotInvoked) =>
        \A q \in 1..(p - 1) :
          ~isParallelledExecutionStep(run[r].workflow[q]) =>
            \A y \in OutputsOf(run[r].workflow[q]) :
              /\ Persisted(run[r], y)
              /\ run[r].data.f[y] = run[r].written[y]

C3_Witness ==
  \E r \in Runs :
    /\ run[r].calls["form_config"] # NotInvoked
    /\ run[r].tasks # <<>>
    /\ run[r].tasks[1].st = "calling"
    /\ run[r].data.f["page_content"] = Obj("generated")

\* C4: the step after a Parallel entry does not begin until every nested step of
\* the entry has persisted its output and merged it into the snapshot, in whatever
\* order the nested steps completed.
C4_ParallelBarrier ==
  \A r \in Runs :
    \A p \in 1..Len(run[r].workflow) :
      (\E x \in OutputsOf(run[r].workflow[p]) : run[r].calls[x] # NotInvoked) =>
        \A q \in 1..(p - 1) :
          isParallelledExecutionStep(run[r].workflow[q]) =>
            \A y \in OutputsOf(run[r].workflow[q]) :
              /\ Persisted(run[r], y)
              /\ run[r].data.f[y] = run[r].written[y]

C4_Witness ==
  \E r \in Runs :
    /\ run[r].calls["last_edited_ts"] # NotInvoked
    /\ \A i \in 1..NPar : Persisted(run[r], Langs[i])

\* the terminal statuses the store has acknowledged to this invocation
TerminalWrites(rn) ==
  {i \in 1..Len(rn.statusWrites) :
     rn.statusWrites[i] \in {<<"success", "ack">>, <<"failed", "ack">>}}

SetRunning(rn) == Len(rn.statusWrites) >= 1 /\ rn.statusWrites[1] = <<"running", "ack">>

\* C6 as stated: an attempt that has set the row to running persists exactly one
\* terminal status, whatever step or store call fails.
C6_ExactlyOneTerminal ==
  \A r \in Runs :
    /\ Cardinality(TerminalWrites(run[r])) <= 1
    /\ (Ended(run[r]) /\ SetRunning(run[r])) =>
         Cardinality(TerminalWrites(run[r])) = 1

\* C6 amended: an attempt that has set the row to running persists at most one
\* terminal status, and exactly one unless the store rejects the write of failed:
\* then it persists none and the row stays running.
C6_OneTerminalUnlessFailedRejected ==
  \A r \in Runs :
    /\ Cardinality(TerminalWrites(run[r])) <= 1
    /\ (Ended(run[r]) /\ SetRunning(run[r])) =>
         IF Last(run[r].statusWrites) = <<"failed", "error">>
         THEN /\ TerminalWrites(run[r]) = {}
              /\ store[run[r].rowId].status = "running"
         ELSE /\ Cardinality(TerminalWrites(run[r])) = 1
              /\ Last(run[r].statusWrites) =
                   <<store[run[r].rowId].status, "ack">>

C6_Witness ==
  \E r \in Runs :
    /\ run[r].pc = "thrown"
    /\ Cardinality(Rejected(run[r])) = NPar
    /\ InFlight(run[r]) = {}
    /\ Cardinality(TerminalWrites(run[r])) = 1
    /\ store[run[r].rowId].status = "failed"

\* C8: in every run of an existing row the store holds status running before any
\* step function is invoked or any output field is written, and while the steps
\* are executing.
C8_RunningFirst ==
  \A r \in Runs :
    ( \/ run[r].pc \in {"steps", "setSuccess", "setFailed"}
      \/ \E x \in OutputFields : run[r].calls[x] # NotInvoked
      \/ \E x \in OutputFields : run[r].written[x] # NotWritten ) =>
      /\ SetRunning(run[r])
      /\ run[r].pc \in {"steps", "setSuccess", "setFailed"} =>
           store[run[r].rowId].status = "running"

C8_Witness ==
  \E r \in Runs :
    /\ run[r].pc = "steps"
    /\ run[r].idx = 2
    /\ run[r].tasks # <<>>
    /\ run[r].tasks[1].st = "calling"
    /\ store[run[r].rowId].status = "running"
    /\ run[r].data.status = "scheduled"

\* C9: run(rowId) on an id that is absent from the store fails with the
\* row-not-found error, writes no status and no field and invokes no step function.
C9_RowNotFound ==
  \A r \in Runs :
    (run[r].pc # "idle" /\ ~store[run[r].rowId].exists) =>
      /\ run[r].pc \in {"getRow", "thrown"}
      /\ run[r].pc = "thrown" => run[r].outcome = RowNotFound
      /\ run[r].statusWrites = <<>>
      /\ \A x \in OutputFields :
           run[r].calls[x] = NotInvoked /\ run[r].written[x] = NotWritten
      /\ store[run[r].rowId] = AbsentRow

C9_Witness ==
  \E r \in Runs :
    /\ run[r].pc = "thrown"
    /\ ~store[run[r].rowId].exists
    /\ run[r].outcome = RowNotFound

\* C10: status success is persisted only if every step, nested steps included,
\* completed without error and had its output persisted; the run then returns the
\* snapshot, which holds every step's output under its output field.
C10_SuccessMeansAllSteps ==
  \A r \in Runs :
    (\E i \in 1..Len(run[r].statusWrites) :
        run[r].statusWrites[i] = <<"success", "ack">>) =>
      /\ run[r].pc = "returned"
      /\ Rejected(run[r]) = {}
      /\ store[run[r].rowId].status = "success"
      /\ \A x \in AllOutputs(run[r]) :
           /\ Persisted(run[r], x)
           /\ run[r].result.f[x] = run[r].written[x]

C10_Witness ==
  \E r \in Runs :
    /\ run[r].pc = "returned"
    /\ store[run[r].rowId].status = "success"
    /\ run[r].result.f["last_edited_ts"] = Str(<<"now">>)
    /\ run[r].result.f["slug"] = Str(<<"a", "-", "b", "!">>)

(***************************************************************************)
(* Properties of the batch runner                                          *)
(***************************************************************************)
\* the executeWorkflow call processBatch made for row id
RowRun(id) == run[id - batch.startId + 1]

BatchRange == batch.startId..batch.endId

FSMEdges ==
  { <<"empty", "scheduled">>, <<"scheduled", "running">>,
    <<"running", "success">>, <<"running", "failed">> }

ArgOf(step, field, v) ==
  IF step.type = "llm" THEN <<field>> \o Serialize(v)
  ELSE IF step.type = "concatenate_fields" THEN <<field>> \o v
  ELSE v

\* C11: a step whose input references the output field of a step at an earlier
\* position receives exactly the value that step's function returned in this run,
\* not the value the store held before the run and not a missing value, and the
\* output it persists is computed from it.
C11_DataFlow ==
  \A r \in Runs :
    \A p \in 1..Len(run[r].workflow) :
      \A j \in 1..Len(NestedSteps(run[r].workflow[p])) :
        LET B == NestedSteps(run[r].workflow[p])[j]
            args == run[r].calls[B.output]
        IN  args # NotInvoked =>
              /\ \A i \in 1..Len(B.input) :
                   B.input[i] \in OutputsUpTo(run[r].workflow, p - 1) =>
                     /\ run[r].written[B.input[i]] # NotWritten
                     /\ args[i] = ArgOf(B, B.input[i], run[r].written[B.input[i]])
              /\ (B.type = "concatenate_fields"
                    /\ run[r].written[B.output] # NotWritten) =>
                   run[r].written[B.output] =
                     <<"object">> \o Flatten([i \in 1..Len(B.input) |->
                        <<B.input[i]>> \o run[r].written[B.input[i]]])

\* the translation receives the object concatenateFields returned in this run,
\* in a row whose output columns held values of an earlier run
C11_Witness ==
  \E r \in Runs :
    /\ run[r].pc = "steps"
    /\ run[r].workflow \in {sample_page_workflow \o <<TimestampStep>>}
    /\ run[r].calls["form_config"] # NotInvoked
    /\ run[r].calls[Langs[1]] # NotInvoked
    /\ run[r].calls["form_config"][3] = <<"page_content", "json", "generated">>
    /\ store[run[r].rowId].f["en"] =
         <<"object", "form_config", "object", "generated",
           "page_content", "object", "generated">>
    /\ store[run[r].rowId].f[Langs[1]] = StaleValue
    /\ run[r].calls[Langs[1]][1] = <<"en", "json", "form_config", "object",
           "generated", "page_content", "object", "generated">>

\* C12: every nested step of a Parallel group receives its inputs as the snapshot
\* holds them in the step that starts the group, and they are never resolved again:
\* under every interleaving, what a sibling writes during the group's execution
\* changes no input of a nested step.
C12_ParallelInputsAtGroupStart ==
  [][\A r \in Runs :
       \A p \in 1..Len(run[r].workflow) :
         isParallelledExecutionStep(run[r].workflow[p]) =>
           \A j \in 1..Len(run[r].workflow[p].steps) :
             LET B == run[r].workflow[p].steps[j] IN
             run'[r].calls[B.output] # run[r].calls[B.output] =>
               \/ run'[r].pc = "getRow"
               \/ /\ run[r].tasks = <<>>
                  /\ run[r].idx = p
                  /\ run'[r].calls[B.output] = InputArgs(B, run[r].data)]_vars

\* form_config is still being generated from the page_content the row held when
\* the group started, while its sibling has already written a new page_content
C12_Witness ==
  \E r \in Runs :
    /\ run[r].workflow = sibling_reference_workflow
    /\ run[r].pc = "steps"
    /\ run[r].tasks # <<>>
    /\ run[r].tasks[1].st = "done"
    /\ run[r].tasks[2].st = "calling"
    /\ store[run[r].rowId].f["page_content"] = Obj("generated")
    /\ run[r].data.f["page_content"] = Obj("generated")
    /\ run[r].calls["form_config"][3] = <<"page_content", "json", "stale">>

\* C13: at every point of a run with no other writer on the row, every field has
\* the same value in the snapshot and in the row store: an output is merged only
\* when its store write has succeeded, for sequential steps and for the nested
\* steps of a Parallel group in whatever order they complete.
C13_WriteThrough ==
  \A r \in Runs :
    (run[r].pc \notin {"idle", "getRow"} /\ run[r].data.exists) =>
      /\ \A x \in Fields : run[r].data.f[x] = store[run[r].rowId].f[x]
      /\ \A x \in OutputFields :
           run[r].written[x] # NotWritten => run[r].data.f[x] = run[r].written[x]

\* the second nested step has written and merged before the first one returned
C13_Witness ==
  \E r \in Runs :
    /\ run[r].pc = "steps"
    /\ Len(run[r].tasks) = NPar
    /\ run[r].tasks[1].st = "calling"
    /\ run[r].tasks[2].st = "done"
    /\ run[r].data.f[Langs[2]] = Obj("generated")
    /\ store[run[r].rowId].f[Langs[2]] = Obj("generated")
    /\ run[r].data.f[Langs[1]] = StaleValue
    /\ store[run[r].rowId].f[Langs[1]] = StaleValue

(***************************************************************************)
(* llm.  call follows one llm invocation request by request.  The provider *)
(* answers a request with a response or rejects it; a response either has  *)
(* no text (content null, or a first block that is not a text block) or    *)
(* carries a text: the empty string, prose, or JSON.  The utilities module *)
(* exists in two versions: the one of the engine above (part_006), whose   *)
(* llm loops over attempts, and the one of the setup guide (part_000),     *)
(* whose llm makes a single request to the Anthropic client.               *)
(***************************************************************************)
NoText == "no text"
Texts == {"", "prose", "{\"title\":1}"}
Responses == {NoText} \cup Texts
RequestRejected == "rejected"

Modules == {"part_006", "part_000"}
Models == {"gpt", "claude"}

\* the string makeRequest extracts from a response: its text, or ''
Content(response) == IF response = NoText THEN "" ELSE response

\* JSON.parse: the value, or a SyntaxError
JSONparse(content) ==
  IF content = "{\"title\":1}" THEN [ok |-> TRUE, val |-> "object title"]
  ELSE [ok |-> FALSE, val |-> "SyntaxError"]

\* the bound, were it 3 in every mode
MAX_RETRIES_AnyMode(json) == 3

MAX_RETRIES(json) == IF json THEN 3 ELSE 1
RETRY_DELAY == 1000

llmCalled(module, model, json) ==
  [fn |-> "llm", module |-> module, model |-> model, json |-> json,
   pc |-> "request", attempt |-> 1, log |-> <<>>, waited |-> 0,
   lastError |-> "none", result |-> "none"]

\* the catch clauses of the attempt loop: remember the error, throw it on the
\* last attempt, otherwise wait RETRY_DELAY and go round again
AttemptFailed(c, err) ==
  IF c.attempt = MAX_RETRIES(c.json)
  THEN [c EXCEPT !.lastError = err, !.pc = "thrown"]
  ELSE [c EXCEPT !.lastError = err, !.pc = "delay"]

\* makeRequest resolves: the raw content is returned as it is when json is
\* false, parsed when json is true
makeRequestResolves(response) ==
  LET c == [call EXCEPT !.log = Append(@, response)]
      raw == Content(response)
  IN  /\ call.fn = "llm"
      /\ call.module = "part_006"
      /\ call.pc = "request"
      /\ call' = IF ~c.json THEN [c EXCEPT !.pc = "returned", !.result = raw]
                 ELSE IF JSONparse(raw).ok
                      THEN [c EXCEPT !.pc = "returned", !.result = JSONparse(raw).val]
                      ELSE AttemptFailed(c, JSONparse(raw).val)
      /\ UNCHANGED <<store, run, batch, ranger>>

makeRequestRejects ==
  /\ call.fn = "llm"
  /\ call.module = "part_006"
  /\ call.pc = "request"
  /\ call' = AttemptFailed([call EXCEPT !.log = Append(@, RequestRejected)],
                           "provider error")
  /\ UNCHANGED <<store, run, batch, ranger>>

\* await delay(RETRY_DELAY), then the next attempt
delayElapsed ==
  /\ call.fn = "llm"
  /\ call.pc = "delay"
  /\ call' = [call EXCEPT !.pc = "request", !.attempt = @ + 1,
                          !.waited = @ + RETRY_DELAY]
  /\ UNCHANGED <<store, run, batch, ranger>>

\* the setup guide's llm: anthropicClient.messages.create resolves
createResolves(response) ==
  LET c == [call EXCEPT !.log = Append(@, response)]
      content == Content(response)
  IN  /\ call.fn = "llm"
      /\ call.module = "part_000"
      /\ call.pc = "request"
      /\ call' = IF c.json /\ ~JSONparse(content).ok
                 THEN [c EXCEPT !.pc = "thrown",
                                !.lastError = "Invalid JSON response from LLM"]
                 ELSE IF c.json
                      THEN [c EXCEPT !.pc = "returned", !.result = JSONparse(content).val]
                      ELSE [c EXCEPT !.pc = "returned", !.result = content]
      /\ UNCHANGED <<store, run, batch, ranger>>

createRejects ==
  /\ call.fn = "llm"
  /\ call.module = "part_000"
  /\ call.pc = "request"
  /\ call' = [call EXCEPT !.log = Append(@, RequestRejected), !.pc = "thrown",
                          !.lastError = "provider error"]
  /\ UNCHANGED <<store, run, batch, ranger>>

(***************************************************************************)
(* SpecLlm: one llm invocation of either version of the module, with any   *)
(* model and either mode, against a provider that answers each request in  *)
(* any of the ways above.                                                  *)
(***************************************************************************)
InitLlm ==
  /\ store = [id \in RowIds |-> AbsentRow]
  /\ run = [r \in Runs |-> IdleRun]
  /\ batch = IdleBatch
  /\ ranger = [k \in Runs |-> IdleRanger]
  /\ call \in {llmCalled(module, model, json) :
                 module \in Modules, model \in Models, json \in BOOLEAN}
  /\ call.module = "part_000" => call.model = "claude"

NextLlm ==
  \/ \E response \in Responses : makeRequestResolves(response)
  \/ makeRequestRejects
  \/ delayElapsed
  \/ \E response \in Responses : createResolves(response)
  \/ createRejects

SpecLlm == InitLlm /\ [][NextLlm]_vars

\* the requests llm has made, and whether one of them failed for llm
Requests == IF call.fn = "llm" THEN Len(call.log) ELSE 0
RequestFailed(i) ==
  \/ call.log[i] = RequestRejected
  \/ call.json /\ ~JSONparse(Content(call.log[i])).ok

\* C14: in JSON mode llm requests the provider at most 3 times, requests
\* again only after a rejected request or a response that did not parse,
\* and returns the parsed value of the first response that parses; in any
\* other mode it makes exactly one request.  It throws exactly when the last
\* allowed request has failed, and requests nothing after that.
C14_RetryBound ==
  (call.fn = "llm" /\ call.module = "part_006") =>
    /\ Requests <= (IF call.json THEN 3 ELSE 1)
    /\ \A i \in 1..(Requests - 1) : RequestFailed(i)
    /\ call.attempt = (IF call.pc = "request" THEN Requests + 1 ELSE Requests)
    /\ call.pc = "delay" => Requests < 3 /\ call.json
    /\ call.pc = "returned" <=> (Requests >= 1 /\ ~RequestFailed(Requests))
    /\ (call.pc = "returned" /\ call.json) =>
         call.result = JSONparse(Content(call.log[Requests])).val
    /\ call.pc = "thrown" <=>
         /\ Requests = (IF call.json THEN 3 ELSE 1)
         /\ RequestFailed(Requests)
    /\ call.pc \in {"returned", "thrown"} /\ ~call.json => Requests = 1

\* a JSON-mode call that was rejected, then answered with prose, then with JSON
C14_Witness ==
  /\ call.fn = "llm"
  /\ call.module = "part_006"
  /\ call.json
  /\ call.pc = "returned"
  /\ call.log = <<RequestRejected, "prose", "{\"title\":1}">>

\* C15: llm never returns from a response that has no text: whenever the
\* response it handled last carries no text, llm has thrown, in JSON mode and
\* in any other mode, and what it returns is never the empty string.
C15_FailsWithoutText ==
  (call.fn = "llm" /\ call.pc = "returned") =>
    /\ call.log[Requests] # NoText
    /\ call.result # ""

\* the part of C15 that the code keeps: a JSON-mode call never returns from
\* a response without text, it retries or throws
C15_JsonModeFailsWithoutText ==
  (call.fn = "llm" /\ call.json /\ call.pc = "returned") =>
    /\ call.log[Requests] # NoText
    /\ call.result # ""

\* a call that is not in JSON mode has returned '' from a response without text
C15_EmptyReturned ==
  /\ call.fn = "llm"
  /\ ~call.json
  /\ call.pc = "returned"
  /\ call.log = <<NoText>>
  /\ call.result = ""

(***************************************************************************)
(* googleSearch.  The function exists in three versions: the setup guide's *)
(* (part_000 line 496), whose body is one try block, and the two of the    *)
(* engine's module (part_006 lines 105 and 349).  Its environment is what  *)
(* the outside answers during one call: whether the credentials are set,   *)
(* how the search provider answers the request, how many items it lists    *)
(* and how the fetch of each item's link ends.                             *)
(***************************************************************************)
MaxItems == 2
DefaultLimit == 5
Absent == "absent"

SearchVersions == {"part_000:496", "part_006:105", "part_006:349"}
ProviderAnswers == {"items", "error body", "timeout", "rejected"}
CrawlOutcomes == {"page", "empty page", "http error", "timeout", "blocked"}
CrawlFailures == {"http error", "timeout", "blocked"}

SearchEnvs ==
  {[credentials |-> FALSE, provider |-> "items", crawl |-> <<>>]} \cup
  {[credentials |-> TRUE, provider |-> a, crawl |-> <<>>] :
     a \in ProviderAnswers \ {"items"}} \cup
  UNION {{[credentials |-> TRUE, provider |-> "items", crawl |-> c] :
            c \in [1..n -> CrawlOutcomes]} : n \in 0..MaxItems}

\* the items of the provider's response: one per crawl outcome of the environment
Item(i) == [title |-> "title " \o ToString(i), link |-> "link " \o ToString(i)]

\* items.slice(0, limit)
Slice(n, limit) == IF n < limit THEN n ELSE limit

\* crawlUrl: the extracted text, or null when the fetch fails
crawlUrl(outcome) ==
  CASE outcome = "page" -> "text"
    [] outcome = "empty page" -> ""
    [] OTHER -> "null"

Entry(i, content) == [title |-> Item(i).title, link |-> Item(i).link, content |-> content]

\* results.filter(result => result.content !== undefined)
RECURSIVE FilterContent(_)
FilterContent(results) ==
  IF results = <<>> THEN <<>>
  ELSE IF Head(results).content = Absent THEN FilterContent(Tail(results))
       ELSE <<Head(results)>> \o FilterContent(Tail(results))

Returned(results, error) == [ok |-> TRUE, results |-> results, error |-> error]
Thrown(message) == [ok |-> FALSE, results |-> <<>>, error |-> message]

\* part_000 line 496: content || undefined, the filter, and the catch of the
\* whole body, which turns every throw into a result with an error
googleSearch_part_000(env, limit) ==
  IF ~env.credentials THEN Returned(<<>>, "GOOGLE_SEARCH_KEY is required")
  ELSE CASE env.provider = "timeout" -> Returned(<<>>, "Search timeout")
         [] env.provider = "rejected" -> Returned(<<>>, "request failed")
         [] env.provider = "error body" -> Returned(<<>>, "provider message")
         [] OTHER ->
              Returned(FilterContent(
                [i \in 1..Slice(Len(env.crawl), limit) |->
                   Entry(i, IF crawlUrl(env.crawl[i]) \in {"null", ""} THEN Absent
                            ELSE crawlUrl(env.crawl[i]))]), Absent)

\* part_006 line 105: nothing is caught but the fetch of an item's link, and
\* an error in the body of the provider's response is not looked at
googleSearch_part_006_105(env, limit) ==
  IF ~env.credentials THEN Thrown("Missing Google Search credentials")
  ELSE CASE env.provider \in {"timeout", "rejected"} -> Thrown("request failed")
         [] env.provider = "error body" -> Returned(<<>>, Absent)
         [] OTHER ->
              Returned([i \in 1..Slice(Len(env.crawl), limit) |->
                          Entry(i, IF env.crawl[i] \in CrawlFailures THEN Absent
                                   ELSE crawlUrl(env.crawl[i]))], Absent)

\* part_006 line 349: content is whatever crawlUrl returns, null included
googleSearch_part_006_349(env, limit) ==
  IF ~env.credentials THEN Thrown("Missing Google Search credentials")
  ELSE CASE env.provider \in {"timeout", "rejected"} -> Thrown("request failed")
         [] env.provider = "error body" -> Thrown("provider message")
         [] OTHER ->
              Returned([i \in 1..Slice(Len(env.crawl), limit) |->
                          Entry(i, crawlUrl(env.crawl[i]))], Absent)

googleSearch(version, env, limit) ==
  CASE version = "part_000:496" -> googleSearch_part_000(env, limit)
    [] version = "part_006:105" -> googleSearch_part_006_105(env, limit)
    [] OTHER -> googleSearch_part_006_349(env, limit)

\* the object googleSearch returns, as the engine's value
EntryValue(e) ==
  <<"{", e.title, e.link>> \o
  (IF e.content = Absent THEN <<>> ELSE <<"content", e.content>>) \o <<"}">>

SearchValue(out) ==
  <<"object", "search_results", "[">> \o
  Flatten([i \in 1..Len(out.results) |-> EntryValue(out.results[i])]) \o <<"]">> \o
  (IF out.error = Absent THEN <<>> ELSE <<"error", out.error>>)

searchCalled(version) ==
  [fn |-> "googleSearch", version |-> version, calls |-> 0,
   env |-> [credentials |-> TRUE, provider |-> "items", crawl |-> <<>>],
   out |-> Returned(<<>>, Absent)]

\* executeStep's call of googleSearch(data[keyword]) settles: the function
\* returns and executeStep goes on to its write, or it throws and the run's
\* catch block takes over
googleSearchSettles(r, j, env) ==
  LET out == googleSearch(call.version, env, DefaultLimit) IN
  /\ call.fn = "googleSearch"
  /\ j \in 1..Len(run[r].tasks)
  /\ run[r].tasks[j].st = "calling"
  /\ NestedSteps(run[r].workflow[run[r].idx])[j].type = "google_search"
  /\ call' = [call EXCEPT !.calls = 1, !.env = env, !.out = out]
  /\ run' = [run EXCEPT ![r] =
       IF out.ok
       THEN [@ EXCEPT !.tasks[j].st = "writing", !.tasks[j].res = SearchValue(out)]
       ELSE Catch([@ EXCEPT !.tasks[j].st = "rejected",
                            !.tasks[j].error = StepError(run[r].tasks[j].output)],
                  StepError(run[r].tasks[j].output))]
  /\ UNCHANGED <<store, batch, ranger>>

(***************************************************************************)
(* SpecSearch: one caller runs search_page_workflow once, on any row id,   *)
(* with any one version of googleSearch in any environment.                *)
(***************************************************************************)
InitSearch ==
  /\ store \in {[id \in RowIds |-> IF id = 1 THEN NewRow("empty", k, Undef) ELSE AbsentRow] :
                  k \in Keywords}
  /\ run = [r \in Runs |-> IdleRun]
  /\ batch = IdleBatch
  /\ ranger = [k \in Runs |-> IdleRanger]
  /\ call \in {searchCalled(version) : version \in SearchVersions}

NextSearch ==
  \/ \E id \in RowIds : run[1].pc = "idle" /\ Call(id, search_page_workflow)
  \/ Engine(1)
  \/ \E j \in 1..NPar, env \in SearchEnvs : googleSearchSettles(1, j, env)

SpecSearch == InitSearch /\ [][NextSearch]_vars

\* the search as a whole failed: no credentials, or the provider answered
\* the request with an error, a timeout or a rejection
OverallFailure(env) == ~env.credentials \/ env.provider # "items"
Searched == call.fn = "googleSearch" /\ call.calls = 1
SearchField == search_page_workflow[1].output
ConsumerField == search_page_workflow[2].output

\* what the search does and what the engine does with it, for the versions V
SearchDegrades(V) ==
  (Searched /\ call.version \in V /\ OverallFailure(call.env)) =>
    /\ call.out.ok
    /\ call.out.results = <<>>
    /\ call.out.error \notin {Absent, ""}
    /\ run[1].error # StepError(SearchField)
    /\ run[1].written[SearchField] # NotWritten =>
         /\ run[1].written[SearchField] = SearchValue(call.out)
         /\ store[run[1].rowId].f[SearchField] = SearchValue(call.out)
    /\ run[1].calls[ConsumerField] # NotInvoked =>
         run[1].calls[ConsumerField][2] =
           <<SearchField>> \o Serialize(SearchValue(Returned(<<>>, call.out.error)))

\* C16: when the search as a whole fails, googleSearch does not throw but
\* returns an empty search_results list and a non-empty error; the engine
\* writes that value to the row, the run does not end with the search
\* step's error, and the later step that references the search field is
\* called with the empty list.
C16_SearchDegrades == SearchDegrades(SearchVersions)

\* C16 for the setup guide's googleSearch alone, which catches every failure
C16_SearchDegradesInSetupGuide == SearchDegrades({"part_000:496"})

\* the engine module's googleSearch has thrown for want of credentials and
\* the run has ended with the search step's error
C16_SearchThrew ==
  /\ Searched
  /\ call.version = "part_006:349"
  /\ ~call.env.credentials
  /\ ~call.out.ok
  /\ run[1].pc = "thrown"
  /\ run[1].outcome = StepError(SearchField)
  /\ run[1].calls[ConsumerField] = NotInvoked

\* the entries of a search that reached the provider's items, for the versions V
CrawlFailureKeepsResult(V) ==
  (Searched /\ call.version \in V /\ ~OverallFailure(call.env)) =>
    /\ call.out.ok
    /\ Len(call.out.results) = Slice(Len(call.env.crawl), DefaultLimit)
    /\ \A i \in 1..Len(call.out.results) :
         /\ call.out.results[i].title = Item(i).title
         /\ call.out.results[i].link = Item(i).link
         /\ call.env.crawl[i] \in CrawlFailures =>
              call.out.results[i].content = Absent

\* C17: a failed crawl of one item never fails the search, and the returned
\* list has one entry per item taken, in order, each with the item's title
\* and link, the entry of an item whose crawl failed having no content field.
C17_CrawlFailureKeepsResult == CrawlFailureKeepsResult(SearchVersions)

\* C17 for the first googleSearch of the engine's module alone
C17_CrawlFailureKeepsResultAt105 == CrawlFailureKeepsResult({"part_006:105"})

\* the setup guide's googleSearch has returned one entry for two items, the
\* item whose crawl failed being left out
C17_ResultDropped ==
  /\ Searched
  /\ call.version = "part_000:496"
  /\ call.env.crawl = <<"http error", "page">>
  /\ call.out.ok
  /\ Len(call.out.results) = 1
  /\ call.out.results[1].title = Item(2).title

(***************************************************************************)
(* Properties of the batch loop                                            *)
(***************************************************************************)
\* executeWorkflow is called in slot k in this step
Invoked(k) == run[k].pc # "getRow" /\ run'[k].pc = "getRow"

\* C18: processBatch calls executeWorkflow once for each id of the range, in
\* ascending order and one call at a time: the call for an id is the first
\* for that id, every smaller id of the range has been called and its call
\* has returned or thrown, no larger id has been called, and when
\* processBatch is done the call of every id of the range has ended.
C18_OncePerRowInOrder ==
  [][/\ \A k \in Runs :
          Invoked(k) =>
            /\ run[k].pc = "idle"
            /\ run'[k].rowId = batch.startId + k - 1
            /\ run'[k].rowId \in BatchRange
            /\ \A m \in Runs :
                 /\ m < k => /\ run[m].pc \in {"returned", "thrown"}
                             /\ run[m].rowId = batch.startId + m - 1
                 /\ m > k => run[m].pc = "idle"
     /\ batch'.pc = "done" =>
          /\ \A id \in BatchRange :
               /\ run'[id - batch.startId + 1].rowId = id
               /\ run'[id - batch.startId + 1].pc \in {"returned", "thrown"}
          /\ \A k \in Runs :
               k > batch.endId - batch.startId + 1 => run'[k].pc = "idle"]_vars

\* a batch over two rows is done, the first run has thrown, the second returned
C18_Witness ==
  /\ batch.pc = "done"
  /\ batch.startId = 1
  /\ batch.endId = 2
  /\ run[1].rowId = 1
  /\ run[1].pc = "thrown"
  /\ run[2].rowId = 2
  /\ run[2].pc = "returned"

\* the delay after row id has been made
Delayed(id) == \E i \in 1..Len(batch.log) : batch.log[i] = <<id, "delay">>

\* the delay between the rows that end in the outcomes O: once the row after
\* such a row is called, the delay after that row has been made; and there
\* is no delay after the last row
DelayBetweenRows(O) ==
  /\ \A i \in 1..Len(batch.log) :
       (batch.log[i][2] \in O /\ batch.log[i][1] < batch.endId
          /\ RowRun(batch.log[i][1] + 1).pc # "idle") =>
         Delayed(batch.log[i][1])
  /\ ~Delayed(batch.endId)

\* C19: the batch runner makes its delay between every two consecutive rows
\* of the range, whether the run of the earlier row succeeded or failed, and
\* makes no delay after the last row.
C19_DelayBetweenRows == DelayBetweenRows({"completed", "failed"})

\* the part of C19 that the code keeps: the delay after a row that succeeded
C19_DelayAfterSuccess == DelayBetweenRows({"completed"})

\* the run of row 1 has failed and row 2 is being run with no delay made
C19_NoDelayAfterFailure ==
  /\ batch.pc = "await"
  /\ batch.log = << <<1, "failed">> >>
  /\ batch.rowId = 2
  /\ run[2].pc # "idle"

(***************************************************************************)
(* main: the command line of the batch runner, `workflow <workflow-type>   *)
(* <rowId or startId-endId>`.  It exists in two versions: the one that     *)
(* calls processBatch (part_007), which selects the workflow before the    *)
(* loop, and the one of the best-practices guide, whose loop is in main    *)
(* itself and selects the workflow at the top of every iteration.  call    *)
(* follows one invocation: its arguments, and the exit code once the       *)
(* process has exited.  The workflow configurations main imports are not   *)
(* among the sources; either known type runs the two-step workflow of      *)
(* SpecBatch.                                                              *)
(***************************************************************************)
MainVersions == {"part_007", "3-page-prompt-best-practices"}
KnownTypes == {"tool-page", "template-page"}
WorkflowTypes == KnownTypes \cup {"blog-page"}

mainCalled(version, workflowType, startId, endId) ==
  [fn |-> "main", version |-> version, workflowType |-> workflowType,
   startId |-> startId, endId |-> endId, pc |-> "start", exitCode |-> 0]

\* process.exit(code)
exit(code) == [call EXCEPT !.pc = "exited", !.exitCode = code]

\* isNaN(startId) || isNaN(endId) || startId > endId: process.exit(1)
mainInvalidRange ==
  /\ call.fn = "main"
  /\ call.pc = "start"
  /\ call.startId > call.endId
  /\ call' = exit(1)
  /\ UNCHANGED <<store, run, batch, ranger>>

\* a known type: the range is processed with the workflow of that type
mainKnownType ==
  /\ call.fn = "main"
  /\ call.pc = "start"
  /\ call.startId <= call.endId
  /\ call.workflowType \in KnownTypes
  /\ processBatch(call.startId, call.endId, service_page_workflow)

\* the default branch taken for a known type's workflow
mainUnknownTypeFallsThrough ==
  /\ call.fn = "main"
  /\ call.pc = "start"
  /\ call.startId <= call.endId
  /\ call.workflowType \notin KnownTypes
  /\ processBatch(call.startId, call.endId, service_page_workflow)

\* default: console.error(`Unknown workflow type: ...`); process.exit(1), before
\* processBatch is called
mainUnknownType ==
  /\ call.fn = "main"
  /\ call.version = "part_007"
  /\ call.pc = "start"
  /\ call.startId <= call.endId
  /\ call.workflowType \notin KnownTypes
  /\ call' = exit(1)
  /\ UNCHANGED <<store, run, batch, ranger>>

\* the guide's version: the loop is entered with rowId = startId, the default
\* branch of the switch throws before executeWorkflow is called, and the
\* catch around the loop logs the error and exits with code 1
mainLoopUnknownType ==
  /\ call.fn = "main"
  /\ call.version = "3-page-prompt-best-practices"
  /\ call.pc = "start"
  /\ call.startId <= call.endId
  /\ call.workflowType \notin KnownTypes
  /\ call' = exit(1)
  /\ UNCHANGED <<store, run, batch, ranger>>

\* the loop is over: main logs that all rows are processed and the process
\* ends with exit code 0
mainReturns ==
  /\ call.fn = "main"
  /\ call.pc = "start"
  /\ batch.pc = "done"
  /\ call' = exit(0)
  /\ UNCHANGED <<store, run, batch, ranger>>

(***************************************************************************)
(* SpecMain: one invocation of the command line, of either version, with   *)
(* any workflow type and any range of row ids, over the rows of SpecBatch. *)
(***************************************************************************)
InitMain ==
  /\ store \in [RowIds -> BatchRows]
  /\ run = [r \in Runs |-> IdleRun]
  /\ batch = IdleBatch
  /\ ranger = [k \in Runs |-> IdleRanger]
  /\ call \in {mainCalled(version, workflowType, startId, endId) :
                 version \in MainVersions, workflowType \in WorkflowTypes,
                 startId \in RowIds, endId \in RowIds}
  /\ call.endId - call.startId < MaxRuns

NextMain ==
  \/ mainInvalidRange
  \/ mainKnownType
  \/ mainUnknownType
  \/ mainLoopUnknownType
  \/ BatchCallsEngine
  \/ BatchRowCompleted
  \/ BatchDelayElapsed
  \/ BatchRowFailed
  \/ BatchReturns
  \/ \E r \in Runs : Engine(r)
  \/ mainReturns

SpecMain == InitMain /\ [][NextMain]_vars

\* C20: with a workflow type that is not known, executeWorkflow is called for
\* no row id, no row is read or written, processBatch's loop is not entered,
\* and when the process has exited its exit code is 1.
C20_UnknownTypeFatal ==
  [][(call.fn = "main" /\ call.workflowType \notin KnownTypes) =>
       /\ store' = store
       /\ \A r \in Runs : run'[r] = IdleRun
       /\ batch' = IdleBatch
       /\ call'.pc = "exited" => call'.exitCode = 1]_vars

\* an invocation with an unknown type and a valid range has exited with code 1
C20_Witness ==
  /\ call.fn = "main"
  /\ call.workflowType = "blog-page"
  /\ call.startId = 1
  /\ call.endId = 2
  /\ call.pc = "exited"
  /\ call.exitCode = 1
  /\ \A r \in Runs : run[r] = IdleRun

(***************************************************************************)
(* Properties of a run on a row that was run before                        *)
(***************************************************************************)
\* the positions of the outer sequence the run has passed
PositionsPassed(rn) ==
  IF rn.pc = "steps" THEN rn.idx - 1
  ELSE IF rn.pc \in {"setSuccess", "returned"} THEN Len(rn.workflow)
  ELSE 0

\* C21: a run starts at the first step whatever the row holds: for every
\* position the run has passed, each step function of the position was
\* called by this run and its output field was written by this run, also
\* when the field was already set before the run; and the steps of the
\* position under way have been called.
C21_RerunFromFirstStep ==
  \A r \in Runs :
    /\ \A x \in OutputsUpTo(run[r].workflow, PositionsPassed(run[r])) :
         /\ run[r].calls[x] # NotInvoked
         /\ run[r].written[x] # NotWritten
    /\ (run[r].pc = "steps" /\ run[r].tasks # <<>>) =>
         \A x \in OutputsOf(run[r].workflow[run[r].idx]) : run[r].calls[x] # NotInvoked

\* a row that an earlier run left failed, its first output written and its
\* error detail stored, is run again: the run has rewritten the first output
\* and is at the second step
C21_Witness ==
  /\ run[1].pc = "steps"
  /\ run[1].idx = 2
  /\ run[1].data.error # NoError
  /\ run[1].data.f["slug"] = Str(<<"a", "-", "b", "!">>)
  /\ run[1].written["slug"] = Str(<<"a", "-", "b", "!">>)
  /\ store[1].f["slug"] = Str(<<"a", "-", "b", "!">>)

(***************************************************************************)
(* Properties of the pipeline: scheduling endpoint, ranger, engine         *)
(***************************************************************************)
Active(rn) == rn.pc \notin {"idle", "returned", "thrown"}

\* executeWorkflow is called on row id in this step
RunStartsOn(id) ==
  \E r \in Runs : run[r].pc # "getRow" /\ run'[r].pc = "getRow" /\ run'[r].rowId = id

\* C22: a row whose status is failed is not run and not set to running by
\* the engine or the ranger: its status stays failed until a scheduling
\* request, which changes neither a run nor a ranger request, sets it to
\* scheduled, and no run is started on it while it is failed.
C22_FailedStaysFailed ==
  [][\A id \in RowIds :
       store[id].status = "failed" =>
         /\ store'[id].status \in {"failed", "scheduled"}
         /\ store'[id].status = "scheduled" => UNCHANGED <<run, ranger>>
         /\ ~RunStartsOn(id)]_vars

\* a ranger request that selected row 1 while it was scheduled has set it to
\* running and started a run on it after another request's run had left it
\* failed
C22_FailedRunAgain ==
  /\ store[1].status = "running"
  /\ store[1].error # NoError
  /\ run[1].rowId = 1
  /\ run[1].pc = "getRow"
  /\ run[2].rowId = 1
  /\ run[2].pc = "thrown"
  /\ ranger[1].pc = "awaiting"

\* C23: at no time are two engine runs active on the same row id.
C23_OneActiveRunPerRow ==
  \A r1 \in Runs, r2 \in Runs :
    (r1 # r2 /\ Active(run[r1]) /\ Active(run[r2])) => run[r1].rowId # run[r2].rowId

\* two ranger requests selected row 1 while it was scheduled and both runs
\* are executing steps on it
C23_TwoRunsOnRow ==
  /\ run[1].rowId = 1
  /\ run[2].rowId = 1
  /\ run[1].pc = "steps"
  /\ run[2].pc = "steps"
  /\ ranger[1].pc = "awaiting"
  /\ ranger[2].pc = "awaiting"

(***************************************************************************)
(* toSlug as a function of its input.  The setup guide's version           *)
(* (part_000) differs from the engine module's in the character class of   *)
(* the first replace: /[^\w\s-]/g drops every character that is not a word *)
(* character, white space or a hyphen.  call holds one call: the version,  *)
(* the input string and, once returned, the result.                        *)
(***************************************************************************)
MaxSlugLen == 4
SlugVersions == {"part_006", "part_000"}
SlugChars == {"a", "A", "1", "_", " ", "-", "!", "U+00E9"}
SlugInputs == UNION {[1..n -> SlugChars] : n \in 0..MaxSlugLen}

\* .replace(/[^\w\s-]/g, '')
removeSpecial_part_000(s) ==
  SelectSeq(s, LAMBDA c : c \in WordChars \/ c \in SpaceChars \/ c = "-")

toSlug_part_000(str) ==
  replaceRuns(replaceRuns(removeSpecial_part_000(trim(toLowerCase(str))), SpaceChars),
              {"-"})

toSlugCalled(version, str) ==
  [fn |-> "toSlug", version |-> version, str |-> str, pc |-> "called", result |-> <<>>]

toSlugReturns ==
  /\ call.fn = "toSlug"
  /\ call.pc = "called"
  /\ call' = [call EXCEPT !.pc = "returned",
                          !.result = IF call.version = "part_006" THEN toSlug(call.str)
                                     ELSE toSlug_part_000(call.str)]
  /\ UNCHANGED <<store, run, batch, ranger>>

InitSlug ==
  /\ store = [id \in RowIds |-> AbsentRow]
  /\ run = [r \in Runs |-> IdleRun]
  /\ batch = IdleBatch
  /\ ranger = [k \in Runs |-> IdleRanger]
  /\ call \in {toSlugCalled(version, str) : version \in SlugVersions, str \in SlugInputs}

NextSlug == toSlugReturns

SpecSlug == InitSlug /\ [][NextSlug]_vars

\* the result for the versions V is a lowercase-hyphenated token
SlugIsToken(V) ==
  (call.fn = "toSlug" /\ call.version \in V /\ call.pc = "returned") =>
    LET out == call.result IN
    /\ \A i \in 1..Len(out) : out[i] \in {"a", "1", "_", "-"}
    /\ \A i \in 1..(Len(out) - 1) : ~(out[i] = "-" /\ out[i + 1] = "-")
    /\ (out # <<>> /\ (out[1] = "-" \/ out[Len(out)] = "-")) =>
         \E i \in 1..Len(call.str) : call.str[i] = "-"

\* C24: for every input the result of toSlug holds no uppercase letter, no
\* white space, no punctuation but hyphen and underscore, no two hyphens in
\* a row, and no hyphen at its start or end unless the input holds a hyphen
\* itself.
C24_SlugIsToken == SlugIsToken(SlugVersions)

\* the engine module's toSlug has returned "a!" for "A!"
C24_PunctuationKept ==
  /\ call.fn = "toSlug"
  /\ call.version = "part_006"
  /\ call.str = <<"A", "!">>
  /\ call.pc = "returned"
  /\ call.result = <<"a", "!">>

\* the setup guide's toSlug has returned "a-" for "a !"
C24_EdgeHyphenLeft ==
  /\ call.fn = "toSlug"
  /\ call.version = "part_000"
  /\ call.str = <<"a", " ", "!">>
  /\ call.pc = "returned"
  /\ call.result = <<"a", "-">>

\* the nested steps of the entry under way of which one has rejected
GroupFailed(rn) == rn.pc \in {"setFailed", "thrown"} /\ Rejected(rn) # {}

\* the invocation has reported its failure: failed is persisted, or the error thrown
Reported(rn) ==
  \/ rn.pc = "thrown"
  \/ \E i \in 1..Len(rn.statusWrites) : rn.statusWrites[i] = <<"failed", "ack">>

\* C25: when a nested step of a Parallel group fails, the engine waits for all
\* of its siblings to complete before it reports the failure: status failed is
\* persisted and the failure is propagated only after every sibling has finished.
C25_WaitsForSiblings ==
  \A r \in Runs :
    (GroupFailed(run[r]) /\ Reported(run[r])) => InFlight(run[r]) = {}

\* the failure of one translation is persisted and thrown while the function of a
\* sibling is still being awaited
C25_ReportedBeforeSiblings ==
  /\ run[1].pc = "thrown"
  /\ run[1].outcome = StepError("ja")
  /\ store[run[1].rowId].status = "failed"
  /\ Len(run[1].tasks) = NPar
  /\ run[1].tasks[1].st = "rejected"
  /\ run[1].tasks[NPar].st = "calling"

\* C26: once an invocation has persisted its terminal status and has returned or
\* thrown, it writes nothing more to the row: no output field and no status, also
\* not by nested steps that were in flight when a sibling failed.
C26_NoWriteAfterEnd ==
  [][\A r \in Runs :
       (/\ run[r].pc \in {"returned", "thrown"}
        /\ TerminalWrites(run[r]) # {}
        /\ run'[r].pc = run[r].pc)
       => /\ run'[r].written = run[r].written
          /\ run'[r].statusWrites = run[r].statusWrites
          /\ store'[run[r].rowId] = store[run[r].rowId]]_vars

\* the invocation has thrown and the row is failed, and the updateRow call of a
\* nested step is still on its way to the store
C26_WritePending ==
  /\ run[1].pc = "thrown"
  /\ TerminalWrites(run[1]) # {}
  /\ store[run[1].rowId].status = "failed"
  /\ \E j \in 1..Len(run[1].tasks) :
       /\ run[1].tasks[j].st = "writing"
       /\ run[1].written[run[1].tasks[j].output] = NotWritten
       /\ store[run[1].rowId].f[run[1].tasks[j].output] = Undef

(***************************************************************************)
(* SpecLive: the pipeline under the cron job, with ranger requests that do *)
(* not overlap: the request of slot 1 has responded before the next one is *)
(* made, and slot 1 then stands for the next request.  Every request, step *)
(* function and store call that has been issued settles (it resolves or    *)
(* rejects) and the continuation of a settled call runs.  Scheduling       *)
(* requests come from outside and are under no fairness condition.         *)
(***************************************************************************)
\* the cron job requests GET /api/seo/batch/ranger once more
RangerInvoked(k) ==
  /\ ranger[k].pc = "done"
  /\ Quiescent(run[k])
  /\ ranger' = [ranger EXCEPT ![k] = IdleRanger]
  /\ run' = [run EXCEPT ![k] = IdleRun]
  /\ UNCHANGED <<store, batch, call>>

NextLive ==
  \/ \E taskIds \in SUBSET RowIds, status \in {"empty", "none"} :
       Schedule(taskIds, status)
  \/ RangerInvoked(1)
  \/ RangerSelects(1)
  \/ RangerUpdates(1)
  \/ RangerUpdateFails(1)
  \/ RangerResponds(1)
  \/ Engine(1)

FairLive ==
  /\ WF_vars(RangerInvoked(1))
  /\ WF_vars(RangerSelects(1))
  /\ WF_vars(RangerUpdates(1) \/ RangerUpdateFails(1))
  /\ WF_vars(RangerResponds(1))
  /\ WF_vars(Engine(1))

SpecLive == InitPipeline /\ [][NextLive]_vars /\ FairLive

\* C27: liveness of the automated pipeline.  While the ranger keeps being
\* requested and every step function and store call settles, every row whose
\* status is scheduled is eventually set to running, and every row whose status
\* is running eventually reaches success or failed: no row stays scheduled or
\* running forever.
C27_Liveness ==
  \A id \in RowIds :
    /\ (store[id].status = "scheduled") ~> (store[id].status = "running")
    /\ (store[id].status = "running") ~> (store[id].status \in {"success", "failed"})

\* a row left running for good: the only run on it has thrown after the store
\* rejected its write of failed, no request holds the row, and neither the
\* ranger nor the scheduling endpoint touches a row whose status is running
C27_StuckRunning ==
  \E id \in RowIds :
    /\ store[id].status = "running"
    /\ ranger[1].pc = "done"
    /\ run[1].rowId = id
    /\ run[1].pc = "thrown"
    /\ run[1].outcome = StepError("page_content")
    /\ run[1].statusWrites[Len(run[1].statusWrites)] = <<"failed", "error">>

FailedWriteRejected(rn) ==
  /\ rn.pc = "thrown"
  /\ IsStepError(rn.error)
  /\ rn.statusWrites # <<>>
  /\ Last(rn.statusWrites) = <<"failed", "error">>

\* C29: if the write of status failed is itself rejected after a step failure,
\* the run throws the step's failure, not the error of the status write, the row
\* is left with status running, and the run makes no further write to the row.
C29_FailedWriteRejected ==
  [][\A r \in Runs :
       /\ FailedWriteRejected(run'[r]) =>
            /\ run'[r].outcome = run'[r].error
            /\ \E j \in Rejected(run'[r]) : run'[r].tasks[j].error = run'[r].outcome
            /\ store'[run'[r].rowId].status = "running"
       /\ (FailedWriteRejected(run[r]) /\ run'[r].pc = "thrown") =>
            /\ run'[r].written = run[r].written
            /\ run'[r].statusWrites = run[r].statusWrites
            /\ store'[run[r].rowId] = store[run[r].rowId]]_vars

\* the translation ja failed, the write of failed was rejected and the failure of
\* ja was thrown; the row is running and the output of es is on its way to it
C29_Witness ==
  /\ FailedWriteRejected(run[1])
  /\ run[1].outcome = StepError("ja")
  /\ store[run[1].rowId].status = "running"
  /\ run[1].tasks[NPar].st = "writing"

\* C30 as stated: after a successful run with no other writer on the row, the
\* snapshot the run returns equals the row the store holds on every field, the
\* status included.
C30_SnapshotEqualsRow ==
  \A r \in Runs :
    run[r].pc = "returned" => run[r].result = store[run[r].rowId]

\* C30 amended: the snapshot of a run holds the status that getRow read; no
\* status write of the run updates it.  After a successful run with no other
\* writer, the snapshot returned equals the row the store holds on every field
\* other than the status: the store holds success, the snapshot the status read
\* when the run began.
C30_SnapshotEqualsRowButStatus ==
  [][\A r \in Runs :
       /\ (run[r].pc = "getRow" /\ run'[r].pc = "setRunning") =>
            run'[r].data.status = store[run[r].rowId].status
       /\ (run[r].pc \in {"setRunning", "steps", "setSuccess"} /\ run'[r].pc # "getRow") =>
            run'[r].data.status = run[r].data.status
       /\ (run[r].pc = "setSuccess" /\ run'[r].pc = "returned") =>
            /\ run'[r].result = run[r].data
            /\ run'[r].result.f = store'[run[r].rowId].f
            /\ run'[r].result.error = store'[run[r].rowId].error
            /\ run'[r].result.exists = store'[run[r].rowId].exists
            /\ store'[run[r].rowId].status = "success"]_vars

\* a run of a scheduled row has returned: the store holds success and every
\* output of the run, the snapshot returned holds the outputs and scheduled
C30_StaleStatus ==
  /\ run[1].pc = "returned"
  /\ store[run[1].rowId].status = "success"
  /\ run[1].result.status = "scheduled"
  /\ run[1].result.f = store[run[1].rowId].f
  /\ run[1].result.f["page_content"] = Obj("generated")

====
